---- MODULE Spec2Model ----
(***************************************************************************)
(* Model of docker_volume_watcher/container_notifier.py: the debounce      *)
(* decorator, ContainerNotifier.__change_handler, ContainerNotifier.notify *)
(* and ContainerNotifier.stop, with one observer thread per notifier.      *)
(***************************************************************************)
EXTENDS Integers, Sequences, FiniteSets, TLC

\* ------------------------------------------------------------------ bounds
MaxTime == 2
MaxEvents == 2
MaxWrites == 1

\* --------------------------------------------------------------- constants
\* old_time = {'value' : None}
None == -1
\* @debounce(2)
bounce_delay == 2

\* Two notifiers alive in the same process, each with its own Observer thread.
Notifiers == {"A", "B"}

\* The decorator runs once, when the class body is evaluated: the closure
\* cell old_time belongs to the function object stored in the class, which
\* every instance shares.
GateOf(n) == "ContainerNotifier.__change_handler"

Gates == {GateOf(n) : n \in Notifiers}

\* Path separators of the host (ntpath) and os.sep there; paths are
\* sequences of names and separators.
Seps == {"/", "\\"}

ossep == "\\"

\* The caller writes A's host directory with forward slashes and B's with
\* backslashes.
host_dir(n) ==
    IF n = "A" THEN <<"C:", "/", "host", "/", "A">>
    ELSE <<"C:", "\\", "host", "\\", "B">>

container_dir(n) == <<"/", "ctr", "/", n>>

\* exclude_patterns = exclude_patterns if exclude_patterns else []
exclude_patterns(n) == {"*.tmp"}

\* Deviation: directory events are filtered out.
ignore_directories_True == TRUE

\* PatternMatchingEventHandler(..., ignore_directories=False)
ignore_directories == FALSE

\* Entries below host_dir, as lists of names: two files, a directory, a
\* file in that directory.
Files == {<<"a.txt">>, <<"x.tmp">>, <<"sub">>, <<"sub", "b.txt">>}

\* ------------------------------------------------------------ pure helpers
RECURSIVE Join(_, _)
Join(names, sep) ==
    IF Len(names) <= 1 THEN names
    ELSE <<Head(names), sep>> \o Join(Tail(names), sep)

\* the names of a path
Names(path) == SelectSeq(path, LAMBDA t : t \notin Seps)

RECURSIVE CommonPrefixLen(_, _)
CommonPrefixLen(p, q) ==
    IF p = <<>> \/ q = <<>> \/ Head(p) # Head(q) THEN 0
    ELSE 1 + CommonPrefixLen(Tail(p), Tail(q))

\* os.path.relpath(path, start) on the host: the names after the common
\* prefix, one '..' for every other name of start, joined with os.sep
relpath(path, start) ==
    LET k == CommonPrefixLen(Names(path), Names(start))
        rel == [i \in 1..(Len(Names(start)) - k) |-> ".."]
                  \o SubSeq(Names(path), k + 1, Len(Names(path)))
    IN  IF rel = <<>> THEN <<".">> ELSE Join(rel, ossep)

\* Deviation: the separators of the host are kept.
Slashed_Keep(path) == path

\* .replace('\\', '/')
Slashed(path) == [i \in 1..Len(path) |-> IF path[i] = "\\" THEN "/" ELSE path[i]]

\* posixpath.join(a, b)
posixjoin(a, b) ==
    IF b # <<>> /\ Head(b) = "/" THEN b
    ELSE IF a = <<>> \/ a[Len(a)] = "/" THEN a \o b
    ELSE a \o <<"/">> \o b

\* Deviation: the source path is used for every event.
HostPath_Src(ev) == ev.src_path

\* host_path = event.dest_path if hasattr(event, 'dest_path') else event.src_path
\* (only a moved event has the attribute)
HostPath(ev) == IF ev.kind = "moved" THEN ev.dest_path ELSE ev.src_path

\* lines 94-96 of __change_handler
AbsolutePath(n, ev) ==
    posixjoin(container_dir(n), Slashed(relpath(HostPath(ev), host_dir(n))))

\* the extension of a file name, and the one a pattern '*.ext' asks for
Ext(name) ==
    CASE name \in {"a.txt", "b.txt"} -> ".txt"
      [] name = "x.tmp" -> ".tmp"
      [] OTHER -> ""

PatternExt(pattern) == IF pattern = "*.tmp" THEN ".tmp" ELSE ".txt"

\* a path matches one of the ignore_patterns
Excluded(n, path) ==
    \E pat \in exclude_patterns(n) : Ext(path[Len(path)]) = PatternExt(pat)

\* the paths PatternMatchingEventHandler.dispatch looks at
EventPaths(ev) == IF ev.kind = "moved" THEN {ev.src_path, ev.dest_path} ELSE {ev.src_path}

\* PatternMatchingEventHandler.dispatch passes an event on unless it is a
\* directory event and directories are ignored, or every path of the event
\* matches an ignore pattern.
Dispatched(n, ev) ==
    /\ ~(ignore_directories /\ ev.is_directory)
    /\ \E path \in EventPaths(ev) : ~Excluded(n, path)

\* on_created, on_moved and on_modified are set to the handler; the other
\* callbacks of the event handler do nothing.
Handled == {"created", "moved", "modified"}

DigitChars == <<"0", "1", "2", "3", "4", "5", "6", "7">>

Whitespace == {" ", "\n", "\t"}

InvalidByte == "\\xff"

\* stat -c %a: the mode in octal, no leading zeros
RECURSIVE OctalStr(_)
OctalStr(m) ==
    IF m < 8 THEN <<DigitChars[m + 1]>>
    ELSE OctalStr(m \div 8) \o <<DigitChars[(m % 8) + 1]>>

DigitVal(c) == CHOOSE d \in 0..7 : DigitChars[d + 1] = c

IsOctal(s) == s # <<>> /\ \A i \in 1..Len(s) : \E d \in 1..8 : DigitChars[d] = s[i]

\* chmod's reading of a numeric mode; None when the string is not octal
RECURSIVE ParseOctal(_)
ParseOctal(s) ==
    IF ~IsOctal(s) THEN None
    ELSE IF Len(s) = 1 THEN DigitVal(s[1])
    ELSE 8 * ParseOctal(SubSeq(s, 1, Len(s) - 1)) + DigitVal(s[Len(s)])

\* bytes.decode('utf-8') succeeds
Decodable(bytes) == \A i \in 1..Len(bytes) : bytes[i] # InvalidByte

RECURSIVE LStrip(_)
LStrip(s) == IF s # <<>> /\ Head(s) \in Whitespace THEN LStrip(Tail(s)) ELSE s

RECURSIVE RStrip(_)
RStrip(s) ==
    IF s # <<>> /\ s[Len(s)] \in Whitespace THEN RStrip(SubSeq(s, 1, Len(s) - 1)) ELSE s

\* str.strip()
Strip(s) == LStrip(RStrip(s))

\* Deviation: the output of stat is passed on with its trailing newline.
Permissions_NoStrip(output) == output

\* permissions = permissions.output.decode('utf-8').strip()
Permissions(output) == Strip(output)

\* Deviation: the window reopens only after more than bounce_delay.
WindowOpen_Strict(old, new) == old = None \/ new - old > bounce_delay

\* if old_time['value'] is None or new_time - old_time['value'] >= bounce_delay
WindowOpen(old, new) == old = None \/ new - old >= bounce_delay

\* ------------------------------------------------------------------- state
VARIABLES
    now,        \* time.time(), in whole time units
    old_time,   \* old_time['value'] of each gate (closure cell of decorate)
    pc,         \* position of each notifier's observer thread
    observer,   \* lifecycle of each notifier's Observer, as seen by stop()
    new_time,   \* local new_time of the running call of wrapped
    event,      \* the event being handled (or the last one handled)
    txn,        \* locals and outcome of the call of notify for that event
    ret,        \* what wrapped returned for that event
    mode,       \* permission bits of the files inside the container
    delivered,  \* number of events delivered so far
    lastDone,   \* time at which the latest execution of the handler completed
    lastKind,   \* kind of the event of that execution
    extWrites   \* writes by other processes inside the container

vars == <<now, old_time, pc, observer, new_time, event, txn, ret, mode,
          delivered, lastDone, lastKind, extWrites>>

Modes == {420, 493}     \* 0644, 0755

\* the path watchdog reports for an entry of host_dir
HostFile(n, f) == host_dir(n) \o <<ossep>> \o Join(f, ossep)

ContainerPaths ==
    {posixjoin(container_dir(n), Join(f, "/")) : n \in Notifiers, f \in Files}

\* a.txt and x.tmp are 0644, sub and sub/b.txt are 0755 when the notifiers
\* are constructed
InitialMode(p) == IF p[Len(p)] \in {"a.txt", "x.tmp"} THEN 420 ELSE 493

Event(k, dir, src, dest) ==
    [kind |-> k, is_directory |-> dir, src_path |-> src, dest_path |-> dest]

\* The events watchdog reports in the model: a.txt is created, the
\* directory sub is modified, a.txt is renamed to sub\b.txt, a.txt is renamed
\* to x.tmp, x.tmp is created, a.txt is deleted.
EventShapes(n) ==
    {Event("created", FALSE, HostFile(n, <<"a.txt">>), <<>>),
     Event("modified", TRUE, HostFile(n, <<"sub">>), <<>>),
     Event("moved", FALSE, HostFile(n, <<"a.txt">>), HostFile(n, <<"sub", "b.txt">>)),
     Event("moved", FALSE, HostFile(n, <<"a.txt">>), HostFile(n, <<"x.tmp">>)),
     Event("created", FALSE, HostFile(n, <<"x.tmp">>), <<>>),
     Event("deleted", FALSE, HostFile(n, <<"a.txt">>), <<>>)}

NoEvent == Event("none", FALSE, <<>>, <<>>)

\* fate: what the gate decided for the event; nStat, nChmod: the remote
\* commands issued for it
\* stat, chmod: the path and the arguments the remote commands were given;
\* statExit, chmodExit: their exit codes (None when exec_run raised)
\* chmodOutput: what chmod printed; log: the lines line 122 logged
NoTxn == [fate |-> "none", path |-> <<>>, nStat |-> 0, nChmod |-> 0,
          stat |-> <<>>, statExit |-> None, statOutput |-> <<>>,
          permissions |-> <<>>, before |-> None, dirty |-> FALSE,
          chmod |-> <<>>, chmodExit |-> None, chmodOutput |-> <<>>,
          result |-> "none", log |-> <<>>]

Init ==
    /\ now = 0
    /\ old_time = [g \in Gates |-> None]
    /\ pc = [n \in Notifiers |-> "idle"]
    /\ observer = [n \in Notifiers |-> "running"]
    /\ new_time = [n \in Notifiers |-> 0]
    /\ event = [n \in Notifiers |-> NoEvent]
    /\ txn = [n \in Notifiers |-> NoTxn]
    /\ ret = [n \in Notifiers |-> "-"]
    /\ mode = [p \in ContainerPaths |-> InitialMode(p)]
    /\ delivered = 0
    /\ lastDone = None
    /\ lastKind = "none"
    /\ extWrites = 0

\* ----------------------------------------------------------------- actions
\* Positions inside my_function (line 38), before line 39 has run.
InFlight == {"stat", "chmod"}

\* The clock advances.
Tick ==
    /\ now < MaxTime
    /\ now' = now + 1
    /\ UNCHANGED <<old_time, pc, observer, new_time, event, txn, ret, mode,
                   delivered, lastDone, lastKind, extWrites>>

\* Deviation: events are dispatched while a call of the handler is running.
Dispatchable_Busy(n) == pc[n] # "dead"

\* The observer thread of n takes the next event when it is back in its
\* dispatch loop.
Dispatchable(n) == pc[n] = "idle"

\* The event handler filters the event out, or has no callback for its
\* kind: nothing is called.
Ignore(n, ev) ==
    /\ Dispatchable(n)
    /\ delivered < MaxEvents
    /\ ~(Dispatched(n, ev) /\ ev.kind \in Handled)
    /\ event' = [event EXCEPT ![n] = ev]
    /\ delivered' = delivered + 1
    /\ pc' = [pc EXCEPT ![n] = "dropped"]
    /\ UNCHANGED <<now, old_time, observer, new_time, txn, ret, mode, lastDone, lastKind,
                   extWrites>>

\* The observer thread of n dispatches an event to wrapped, which reads the
\* clock: new_time = time.time()
Invoke(n, ev) ==
    /\ Dispatchable(n)
    /\ delivered < MaxEvents
    /\ Dispatched(n, ev) /\ ev.kind \in Handled
    /\ event' = [event EXCEPT ![n] = ev]
    /\ new_time' = [new_time EXCEPT ![n] = now]
    /\ ret' = [ret EXCEPT ![n] = "pending"]
    /\ delivered' = delivered + 1
    /\ pc' = [pc EXCEPT ![n] = "l37"]
    /\ UNCHANGED <<now, old_time, observer, txn, mode, lastDone, lastKind, extWrites>>

\* Line 38: the window is open, my_function is entered; lines 94-96 compute
\* the container path and call notify.
Admit(n) ==
    /\ pc' = [pc EXCEPT ![n] = "stat"]
    /\ txn' = [txn EXCEPT ![n].fate = "executed",
                          ![n].path = AbsolutePath(n, event[n])]
    /\ UNCHANGED <<old_time, ret>>

\* Deviation: a suppressed call restarts the window.
Suppress_Restart(n) ==
    /\ pc' = [pc EXCEPT ![n] = "returned"]
    /\ ret' = [ret EXCEPT ![n] = "None"]
    /\ txn' = [txn EXCEPT ![n].fate = "suppressed"]
    /\ old_time' = [old_time EXCEPT ![GateOf(n)] = new_time[n]]

\* Line 41: the window is closed, wrapped returns None and does nothing else.
Suppress(n) ==
    /\ pc' = [pc EXCEPT ![n] = "returned"]
    /\ ret' = [ret EXCEPT ![n] = "None"]
    /\ txn' = [txn EXCEPT ![n].fate = "suppressed"]
    /\ UNCHANGED old_time

\* Deviation: on_moved is wired to a handler without the gate.
Decide_MovedUngated(n) ==
    /\ pc[n] = "l37"
    /\ IF event[n].kind = "moved" \/ WindowOpen(old_time[GateOf(n)], new_time[n])
       THEN Admit(n) ELSE Suppress(n)
    /\ UNCHANGED <<now, observer, new_time, event, mode, delivered, lastDone,
                   lastKind, extWrites>>

\* Line 37: the gate compares the clock it read to old_time['value'].
Decide(n) ==
    /\ pc[n] = "l37"
    /\ IF WindowOpen(old_time[GateOf(n)], new_time[n]) THEN Admit(n) ELSE Suppress(n)
    /\ UNCHANGED <<now, observer, new_time, event, mode, delivered, lastDone, lastKind,
                   extWrites>>

\* What container.exec_run(['stat', '-c', '%a', path]) can give back: the
\* mode in octal and a newline, a non-zero exit code, output that is not
\* UTF-8, or docker.errors.APIError.
StatReplies(p) ==
    {[raised |-> FALSE, exit_code |-> 0, output |-> OctalStr(mode[p]) \o <<"\n">>],
     [raised |-> FALSE, exit_code |-> 1, output |-> <<"E", "\n">>],
     [raised |-> FALSE, exit_code |-> 0, output |-> <<InvalidByte>>],
     [raised |-> TRUE, exit_code |-> None, output |-> <<>>]}

\* What container.exec_run(['chmod', permissions, path]) can give back.
\* chmod rejects a mode that is not octal.
ChmodReplies(permissions) ==
    {[raised |-> FALSE, exit_code |-> 1, output |-> <<"E", "\n">>],
     [raised |-> TRUE, exit_code |-> None, output |-> <<>>]}
    \cup
    (IF ParseOctal(permissions) = None THEN {}
     ELSE {[raised |-> FALSE, exit_code |-> 0, output |-> <<>>],
           [raised |-> FALSE, exit_code |-> 0, output |-> <<"o", "k", "\n">>],
           [raised |-> FALSE, exit_code |-> 0, output |-> <<InvalidByte>>]})

\* Deviation: the exit code of stat is not looked at.
StatOutcome_NoExitCheck(reply) ==
    IF reply.raised THEN "TransportFailure"
    ELSE IF ~Decodable(reply.output) THEN "Uncaught"
    ELSE "ok"

\* How the try block of notify ends after the stat step:
\* except docker.errors.APIError / raise NonZeroExitError / decode() raising
\* UnicodeDecodeError, which no except clause names / on to chmod.
StatOutcome(reply) ==
    IF reply.raised THEN "TransportFailure"
    ELSE IF reply.exit_code # 0 THEN "CommandFailure"
    ELSE IF ~Decodable(reply.output) THEN "Uncaught"
    ELSE "ok"

\* Deviation: notify has no except clause for docker.errors.APIError.
ChmodOutcome_NoCatch(reply) ==
    IF reply.raised THEN "Uncaught"
    ELSE IF reply.exit_code # 0 THEN "CommandFailure"
    ELSE IF ~Decodable(reply.output) THEN "Uncaught"
    ELSE "ok"

\* How the try block of notify ends after the chmod step (line 122 decodes
\* the output).
ChmodOutcome(reply) ==
    IF reply.raised THEN "TransportFailure"
    ELSE IF reply.exit_code # 0 THEN "CommandFailure"
    ELSE IF ~Decodable(reply.output) THEN "Uncaught"
    ELSE "ok"

\* __change_handler has no return statement
HandlerResult == "None"

\* Deviation: the gate records the clock it read when the call began.
GateAfterRun_Start(n) == [old_time EXCEPT ![GateOf(n)] = new_time[n]]

\* Line 39: old_time['value'] = time.time()
GateAfterRun(n) == [old_time EXCEPT ![GateOf(n)] = now]

\* Lines 39-40: my_function returned; the gate records the clock and returns
\* the result (the handler has no return statement: None).  t holds the
\* locals of notify as it ended.
Record(n, t) ==
    /\ txn' = [txn EXCEPT ![n] = t]
    /\ old_time' = GateAfterRun(n)
    /\ ret' = [ret EXCEPT ![n] = HandlerResult]
    /\ lastDone' = now
    /\ lastKind' = event[n].kind
    /\ pc' = [pc EXCEPT ![n] = "returned"]

\* Deviation: a failed transaction is started again.
Recovered_Retry(n, t) ==
    /\ txn' = [txn EXCEPT ![n] = t]
    /\ pc' = [pc EXCEPT ![n] = "stat"]
    /\ UNCHANGED <<old_time, ret, lastDone, lastKind>>

\* Deviation: a failed transaction does not start a cooldown.
Recovered_NoRecord(n, t) ==
    /\ txn' = [txn EXCEPT ![n] = t]
    /\ pc' = [pc EXCEPT ![n] = "returned"]
    /\ ret' = [ret EXCEPT ![n] = HandlerResult]
    /\ UNCHANGED <<old_time, lastDone, lastKind>>

\* Lines 123-131: both except clauses only log; notify returns normally to
\* __change_handler, which returns to line 39 of wrapped.
Recovered(n, t) == Record(n, t)

\* Deviation: the gate records the clock in a finally clause.
Raise_Record(n, t) ==
    /\ txn' = [txn EXCEPT ![n] = t]
    /\ pc' = [pc EXCEPT ![n] = "returned"]
    /\ ret' = [ret EXCEPT ![n] = "raised"]
    /\ old_time' = GateAfterRun(n)
    /\ UNCHANGED <<lastDone, lastKind>>

\* An exception no except clause of notify names leaves notify,
\* __change_handler and wrapped: line 39 is skipped.
Raise(n, t) ==
    /\ txn' = [txn EXCEPT ![n] = t]
    /\ pc' = [pc EXCEPT ![n] = "returned"]
    /\ ret' = [ret EXCEPT ![n] = "raised"]
    /\ UNCHANGED <<old_time, lastDone, lastKind>>

\* Lines 112-116: the stat step of notify.
Stat(n, reply) ==
    /\ pc[n] = "stat"
    /\ reply \in StatReplies(txn[n].path)
    /\ LET outcome == StatOutcome(reply)
           t == [txn[n] EXCEPT !.nStat = @ + 1,
                               !.stat = txn[n].path,
                               !.statExit = reply.exit_code,
                               !.statOutput = reply.output,
                               !.before = mode[txn[n].path]]
       IN  CASE outcome = "ok" ->
                  /\ txn' = [txn EXCEPT ![n] =
                               [t EXCEPT !.permissions = Permissions(reply.output)]]
                  /\ pc' = [pc EXCEPT ![n] = "chmod"]
                  /\ UNCHANGED <<old_time, ret, lastDone, lastKind>>
             [] outcome = "Uncaught" -> Raise(n, [t EXCEPT !.result = outcome])
             [] OTHER -> Recovered(n, [t EXCEPT !.result = outcome])
    /\ UNCHANGED <<now, observer, new_time, event, mode, delivered, extWrites>>

\* Lines 117-122: the chmod step of notify.  'if response:' tests a
\* non-empty tuple, so the output of a successful chmod is always logged.
Chmod(n, reply) ==
    /\ pc[n] = "chmod"
    /\ reply \in ChmodReplies(txn[n].permissions)
    /\ LET outcome == ChmodOutcome(reply)
           t == [txn[n] EXCEPT !.nChmod = @ + 1,
                               !.chmod = <<txn[n].permissions, txn[n].path>>,
                               !.chmodExit = reply.exit_code,
                               !.chmodOutput = reply.output,
                               !.result = outcome]
       IN  CASE outcome = "ok" ->
                  Record(n, [t EXCEPT !.log = <<Strip(reply.output)>>])
             [] outcome = "Uncaught" -> Raise(n, t)
             [] OTHER -> Recovered(n, t)
    /\ mode' = IF ~reply.raised /\ reply.exit_code = 0
               THEN [mode EXCEPT ![txn[n].path] = ParseOctal(txn[n].permissions)]
               ELSE mode
    /\ UNCHANGED <<now, observer, new_time, event, delivered, extWrites>>

\* wrapped has returned (or raised), or the event was filtered out: the
\* thread is back in the observer's dispatch loop and the locals of the call
\* are gone.  An exception that reaches the dispatch loop may end the thread.
Return(n) ==
    /\ pc[n] \in {"returned", "dropped"}
    /\ \E next \in (IF ret[n] = "raised" THEN {"idle", "dead"} ELSE {"idle"}) :
          pc' = [pc EXCEPT ![n] = next]
    /\ event' = [event EXCEPT ![n] = NoEvent]
    /\ txn' = [txn EXCEPT ![n] = NoTxn]
    /\ new_time' = [new_time EXCEPT ![n] = 0]
    /\ ret' = [ret EXCEPT ![n] = "-"]
    /\ UNCHANGED <<now, old_time, observer, mode, delivered, lastDone, lastKind,
                   extWrites>>

\* Another process inside the container changes the mode of the file that
\* the transaction of n has read and not yet rewritten.
ExternalWrite(n, m) ==
    /\ extWrites < MaxWrites
    /\ pc[n] = "chmod"
    /\ mode[txn[n].path] # m
    /\ mode' = [mode EXCEPT ![txn[n].path] = m]
    /\ txn' = [txn EXCEPT ![n].dirty = TRUE]
    /\ extWrites' = extWrites + 1
    /\ UNCHANGED <<now, old_time, pc, observer, new_time, event, ret, delivered,
                   lastDone, lastKind>>

\* stop(): self.observer.stop() asks the observer thread to end ...
StopCall(n) ==
    /\ observer[n] = "running"
    /\ observer' = [observer EXCEPT ![n] = "stopping"]
    /\ UNCHANGED <<now, old_time, pc, new_time, event, txn, ret, mode, delivered,
                   lastDone, lastKind, extWrites>>

\* ... the thread ends between two events ...
ThreadExit(n) ==
    /\ observer[n] = "stopping"
    /\ pc[n] = "idle"
    /\ pc' = [pc EXCEPT ![n] = "dead"]
    /\ UNCHANGED <<now, old_time, observer, new_time, event, txn, ret, mode,
                   delivered, lastDone, lastKind, extWrites>>

\* Deviation: stop() does not wait for the observer thread.
JoinDone_NoJoin(n) == TRUE

\* self.observer.join() returns once the thread has ended
JoinDone(n) == pc[n] = "dead"

\* ... and stop() returns after self.observer.join().
StopReturn(n) ==
    /\ observer[n] = "stopping"
    /\ JoinDone(n)
    /\ observer' = [observer EXCEPT ![n] = "stopped"]
    /\ UNCHANGED <<now, old_time, pc, new_time, event, txn, ret, mode, delivered,
                   lastDone, lastKind, extWrites>>

Next ==
    \/ Tick
    \/ \E n \in Notifiers : \E ev \in EventShapes(n) : Ignore(n, ev)
    \/ \E n \in Notifiers : \E ev \in EventShapes(n) : Invoke(n, ev)
    \/ \E n \in Notifiers : Decide(n)
    \/ \E n \in Notifiers :
          pc[n] = "stat" /\ \E r \in StatReplies(txn[n].path) : Stat(n, r)
    \/ \E n \in Notifiers :
          pc[n] = "chmod" /\ \E r \in ChmodReplies(txn[n].permissions) : Chmod(n, r)
    \/ \E n \in Notifiers : Return(n)
    \/ \E n \in Notifiers : \E m \in Modes : ExternalWrite(n, m)
    \/ \E n \in Notifiers : StopCall(n)
    \/ \E n \in Notifiers : ThreadExit(n)
    \/ \E n \in Notifiers : StopReturn(n)

Spec == Init /\ [][Next]_vars

\* Only notifier A receives events and is stopped; B stays idle.
NextOne ==
    \/ Tick
    \/ \E ev \in EventShapes("A") : Ignore("A", ev)
    \/ \E ev \in EventShapes("A") : Invoke("A", ev)
    \/ Decide("A")
    \/ pc["A"] = "stat" /\ \E r \in StatReplies(txn["A"].path) : Stat("A", r)
    \/ pc["A"] = "chmod" /\ \E r \in ChmodReplies(txn["A"].permissions) : Chmod("A", r)
    \/ Return("A")
    \/ \E m \in Modes : ExternalWrite("A", m)
    \/ StopCall("A")
    \/ ThreadExit("A")
    \/ StopReturn("A")

SpecOne == Init /\ [][NextOne]_vars

\* ------------------------------------------------------------------ claims
\* C1: the wrapped operation is never executed more than once per cooldown
\* window: whenever an execution starts, no other execution is running and
\* the latest completed one ended at least bounce_delay earlier.
C1_OncePerWindow ==
    [][\A n \in Notifiers :
          (pc[n] = "l37" /\ pc'[n] = "stat") =>
             /\ \A m \in Notifiers \ {n} : pc[m] \notin InFlight
             /\ lastDone = None \/ now - lastDone >= bounce_delay]_vars

\* C2: each notifier has its own debounce state: the completion of A's
\* handler never changes the last-fire timestamp that B's gate reads.
C2_PerInstanceState ==
    [][\A a \in Notifiers : \A b \in Notifiers \ {a} :
          (pc[a] \in InFlight /\ pc'[a] = "returned") =>
             old_time'[GateOf(b)] = old_time[GateOf(b)]]_vars

\* C3: decision and timestamp update are atomic: two threads that invoke
\* the same gate are never both executing the wrapped operation.
C3_AtomicGate ==
    \A a \in Notifiers : \A b \in Notifiers \ {a} :
        GateOf(a) = GateOf(b) => ~(pc[a] \in InFlight /\ pc[b] \in InFlight)

\* C4: a call that finds the window open (no execution has completed yet,
\* or the latest one completed at least bounce_delay before the call read
\* the clock) executes the wrapped operation in the calling thread, and a
\* call that ran the operation to its end returns the operation's result.
C4_OpenWindowExecutes ==
    [][\A n \in Notifiers :
          /\ (pc[n] = "l37" /\ pc'[n] # "l37"
                /\ (lastDone = None \/ new_time[n] - lastDone >= bounce_delay))
             => (pc'[n] = "stat" /\ txn'[n].fate = "executed")
          /\ (pc[n] \in InFlight /\ pc'[n] = "returned" /\ ret'[n] # "raised")
             => ret'[n] = HandlerResult]_vars

\* A call is executing because the window had reopened after an earlier
\* execution.
C4_Witness ==
    \E n \in Notifiers :
        /\ pc[n] = "stat"
        /\ lastDone # None
        /\ new_time[n] - lastDone >= bounce_delay

\* C5: a suppressed call is dropped: the step that suppresses it returns
\* None, issues no remote command and leaves every gate timestamp and every
\* file mode unchanged, and no later step of that call issues a command or
\* enters the operation.
C5_SuppressedIsDropped ==
    [][\A n \in Notifiers :
          /\ (pc[n] = "l37" /\ pc'[n] = "returned") =>
                /\ ret'[n] = "None"
                /\ txn'[n].fate = "suppressed"
                /\ txn'[n].nStat = 0 /\ txn'[n].nChmod = 0
                /\ old_time' = old_time
                /\ mode' = mode
          /\ txn[n].fate = "suppressed" =>
                /\ pc'[n] \in {"returned", "idle"}
                /\ txn'[n].fate \in {"suppressed", "none"}
                /\ txn'[n].nStat = 0 /\ txn'[n].nChmod = 0]_vars

\* A call has been suppressed and has returned None.
C5_Witness ==
    \E n \in Notifiers :
        pc[n] = "returned" /\ txn[n].fate = "suppressed" /\ ret[n] = "None"

\* the stat step / the chmod step of a transaction failed (non-zero exit
\* code, or exec_run raised)
StatFailed(t) == t.nStat > 0 /\ t.statExit # 0

ChmodFailed(t) == t.nChmod > 0 /\ t.chmodExit # 0

\* C6: chmod is invoked only after the stat of the same transaction
\* returned exit code 0; after a non-zero exit code or a transport error of
\* stat the transaction never reaches chmod.
C6_ChmodOnlyAfterStatOk ==
    \A n \in Notifiers :
        /\ (pc[n] = "chmod" \/ txn[n].nChmod > 0) =>
              (txn[n].nStat = 1 /\ txn[n].statExit = 0)
        /\ StatFailed(txn[n]) => (pc[n] # "chmod" /\ txn[n].nChmod = 0)

\* One transaction ended after a non-zero exit code of stat without a
\* chmod, another one issued its chmod.
C6_Witness ==
    /\ \E n \in Notifiers :
          pc[n] = "returned" /\ txn[n].statExit = 1 /\ txn[n].nChmod = 0
    /\ \E n \in Notifiers : txn[n].nChmod = 1

\* C7: the mode given to chmod is the stripped output of the stat of the
\* same transaction, on the path stat was given, and after a successful
\* transaction with no other writer the file has the mode it had before.
C7_NoOpRewrite ==
    \A n \in Notifiers :
        txn[n].nChmod > 0 =>
            /\ txn[n].chmod = <<Strip(txn[n].statOutput), txn[n].stat>>
            /\ (txn[n].result = "ok" /\ ~txn[n].dirty) =>
                  mode[txn[n].path] = txn[n].before

\* A transaction succeeded with no other writer.
C7_Witness ==
    \E n \in Notifiers :
        pc[n] = "returned" /\ txn[n].result = "ok" /\ ~txn[n].dirty

\* C8: when a remote command exits non-zero or exec_run raises APIError, at
\* either step, notify and the gate return normally, and the observer
\* thread goes back to waiting for events.
C8_FailuresRecovered ==
    [][\A n \in Notifiers :
          /\ (pc[n] \in InFlight /\ pc'[n] # pc[n]
                /\ (StatFailed(txn'[n]) \/ ChmodFailed(txn'[n])))
             => /\ pc'[n] = "returned"
                /\ ret'[n] = HandlerResult
                /\ txn'[n].result \in {"CommandFailure", "TransportFailure"}
          /\ (pc[n] = "returned" /\ ret[n] # "raised" /\ pc'[n] # "returned")
             => pc'[n] = "idle"]_vars

\* exec_run raised at the chmod step and the call returned normally.
C8_Witness ==
    \E n \in Notifiers :
        /\ pc[n] = "returned"
        /\ txn[n].nChmod = 1 /\ txn[n].chmodExit = None
        /\ ret[n] = HandlerResult

\* C9: no retries: one event issues at most one stat and at most one chmod,
\* none at all when it is suppressed, and once its transaction has an
\* outcome no further command is issued for it.
C9_NoRetries ==
    /\ [](\A n \in Notifiers :
            /\ txn[n].nStat <= 1 /\ txn[n].nChmod <= 1
            /\ txn[n].fate # "executed" => (txn[n].nStat = 0 /\ txn[n].nChmod = 0))
    /\ [][\A n \in Notifiers :
            (txn[n].result # "none" \/ txn[n].fate = "suppressed") =>
               /\ pc'[n] \notin InFlight
               /\ txn'[n].nStat <= txn[n].nStat
               /\ txn'[n].nChmod <= txn[n].nChmod]_vars

\* A transaction failed at chmod after exactly one stat and one chmod.
C9_Witness ==
    \E n \in Notifiers :
        /\ pc[n] = "returned"
        /\ txn[n].result = "CommandFailure"
        /\ txn[n].nStat = 1 /\ txn[n].nChmod = 1

\* C10: once stop() has returned the observer thread has ended: no event
\* enters the gate and no remote command is issued by that notifier.
C10_StopIsSynchronous ==
    /\ [](\A n \in Notifiers : observer[n] = "stopped" => pc[n] = "dead")
    /\ [][\A n \in Notifiers :
            observer[n] = "stopped" =>
               /\ pc'[n] = pc[n]
               /\ event'[n] = event[n]
               /\ txn'[n] = txn[n]]_vars

\* stop() has returned while events are still to come.
C10_Witness ==
    \E n \in Notifiers : observer[n] = "stopped" /\ delivered < MaxEvents

\* the container path of a host path below host_dir(n): container_dir(n)
\* and the names of the host path after those of host_dir(n), with '/'
\* between them
Translated(n, path) ==
    container_dir(n) \o <<"/">>
       \o Join(SubSeq(Names(path), Len(Names(host_dir(n))) + 1, Len(Names(path))), "/")

\* C11: the notification of a moved event targets the translated
\* destination path and not the source path; that of a created or modified
\* event targets the translated source path.
C11_MoveUsesDestination ==
    \A n \in Notifiers :
        txn[n].fate = "executed" =>
            /\ event[n].kind = "moved" =>
                  /\ txn[n].path = Translated(n, event[n].dest_path)
                  /\ txn[n].path # Translated(n, event[n].src_path)
            /\ event[n].kind \in {"created", "modified"} =>
                  txn[n].path = Translated(n, event[n].src_path)
            /\ txn[n].nStat > 0 => txn[n].stat = txn[n].path
            /\ txn[n].nChmod > 0 => txn[n].chmod[2] = txn[n].path

\* The stat of a moved event has been issued.
C11_Witness ==
    \E n \in Notifiers : event[n].kind = "moved" /\ txn[n].nStat = 1

\* C12: an event whose path (the one a notification would be about)
\* matches an exclude pattern never produces a notification: it is dropped
\* before the gate and no remote command is issued for it.
C12_ExcludedNeverNotified ==
    \A n \in Notifiers :
        (event[n] # NoEvent /\ Excluded(n, HostPath(event[n]))) =>
            (pc[n] = "dropped" /\ txn[n] = NoTxn)

\* C13: a directory event never reaches the change handler.
C13_DirectoriesIgnored ==
    \A n \in Notifiers : event[n].is_directory => pc[n] = "dropped"

\* C13 as amended: a created, modified or moved directory event is dropped
\* only when its paths match an exclude pattern; otherwise it goes through
\* the gate like a file event and an open window lets it issue the stat of
\* the directory's translated path.
C13_DirectoriesDispatched ==
    /\ [](\A n \in Notifiers :
            (event[n].is_directory /\ event[n].kind \in Handled /\ pc[n] = "dropped")
               => \A path \in EventPaths(event[n]) : Excluded(n, path))
    /\ [][\A n \in Notifiers :
            (event[n].is_directory /\ pc[n] = "l37" /\ pc'[n] # "l37"
               /\ WindowOpen(old_time[GateOf(n)], new_time[n]))
            => (pc'[n] = "stat"
                  /\ txn'[n].path = Translated(n, event[n].src_path))]_vars

\* The stat of a directory has been issued.
C13_Witness ==
    \E n \in Notifiers : event[n].is_directory /\ txn[n].nStat = 1

\* C14: the path given to notify is container_dir joined, POSIX style, with
\* the host path relative to host_dir, every backslash replaced by a slash.
C14_PathTranslation ==
    \A n \in Notifiers :
        txn[n].fate = "executed" =>
            /\ txn[n].path = Translated(n, HostPath(event[n]))
            /\ \A i \in 1..Len(txn[n].path) : txn[n].path[i] # "\\"

\* Both notifiers (host_dir written with slashes, with backslashes) are
\* notifying about sub\b.txt.
C14_Witness ==
    \A n \in Notifiers :
        txn[n].path = <<"/", "ctr", "/", n, "/", "sub", "/", "b.txt">>

\* C15: the cooldown runs from the completion of the previous execution:
\* the gate records the clock when the handler has returned, and a call
\* that reads the clock less than bounce_delay after that completion is
\* suppressed, however long ago the execution started.
C15_CooldownFromCompletion ==
    [][\A n \in Notifiers :
          /\ (pc[n] \in InFlight /\ pc'[n] = "returned" /\ ret'[n] = HandlerResult)
             => old_time'[GateOf(n)] = now
          /\ (pc[n] = "l37" /\ pc'[n] # "l37"
                /\ lastDone # None /\ new_time[n] - lastDone < bounce_delay)
             => (pc'[n] = "returned" /\ txn'[n].fate = "suppressed")]_vars

\* Of the two events delivered, a's was executed and b's was suppressed,
\* although b's call came at least bounce_delay after a's call began: it
\* came less than bounce_delay after a's execution completed.
C15_Witness ==
    \E a \in Notifiers : \E b \in Notifiers \ {a} :
        /\ delivered = 2
        /\ pc[a] = "returned" /\ txn[a].fate = "executed" /\ ret[a] = HandlerResult
        /\ pc[b] = "returned" /\ txn[b].fate = "suppressed"
        /\ new_time[b] - new_time[a] >= bounce_delay
        /\ new_time[b] - lastDone < bounce_delay

\* C16: the events of one watcher are processed one after the other: an
\* event is taken only when the thread is back in its dispatch loop, with
\* no event and no transaction of that watcher left over.
C16_SequentialPerWatcher ==
    [][\A n \in Notifiers :
          (event'[n] # event[n] /\ event'[n] # NoEvent) =>
             (pc[n] = "idle" /\ event[n] = NoEvent /\ txn[n] = NoTxn)]_vars

\* The second event of the watcher is at the gate after the transaction of
\* its first event has completed.
C16_Witness ==
    delivered = 2 /\ pc["A"] = "l37" /\ lastDone # None

\* C17: created, modified and moved events share the gate: whatever its
\* kind and path, an event that comes less than bounce_delay after the
\* completion of an executed event of the watcher, whatever the kind of
\* that one, is suppressed.
C17_OneGateForAllKinds ==
    [][\A n \in Notifiers : \A k \in Handled : \A j \in Handled :
          (pc[n] = "l37" /\ pc'[n] # "l37" /\ event[n].kind = k /\ lastKind = j
             /\ new_time[n] - lastDone < bounce_delay)
          => (pc'[n] = "returned" /\ txn'[n].fate = "suppressed"
                /\ txn'[n].nStat = 0)]_vars

\* The creation of a.txt has been suppressed after the execution of a
\* moved event of the same watcher.
C17_Witness ==
    /\ pc["A"] = "returned" /\ txn["A"].fate = "suppressed"
    /\ event["A"].kind = "created"
    /\ lastKind = "moved"

\* C18: on a successful transaction a line is logged for the output of
\* chmod exactly when that output is not empty.
C18_LogIffOutput ==
    \A n \in Notifiers :
        txn[n].result = "ok" => (txn[n].log # <<>> <=> txn[n].chmodOutput # <<>>)

\* C19: a transaction that fails with a non-zero exit code or a caught
\* APIError still ends with the gate recording the clock and the call
\* returning normally, so a call that reads the clock less than bounce_delay
\* after the failed attempt is suppressed.
C19_FailureConsumesWindow ==
    [][\A n \in Notifiers :
          /\ (pc[n] \in InFlight /\ pc'[n] # pc[n]
                /\ (StatFailed(txn'[n]) \/ ChmodFailed(txn'[n])))
             => /\ pc'[n] = "returned" /\ ret'[n] = HandlerResult
                /\ old_time'[GateOf(n)] = now
                /\ lastDone' = now
          /\ (pc[n] = "l37" /\ pc'[n] # "l37"
                /\ old_time[GateOf(n)] # None
                /\ new_time[n] - old_time[GateOf(n)] < bounce_delay)
             => txn'[n].fate = "suppressed"]_vars

\* Of the two events delivered, a's transaction failed and b's call was
\* suppressed.
C19_Witness ==
    \E a \in Notifiers : \E b \in Notifiers \ {a} :
        /\ delivered = 2
        /\ pc[a] = "returned"
        /\ txn[a].result \in {"CommandFailure", "TransportFailure"}
        /\ pc[b] = "returned" /\ txn[b].fate = "suppressed"

\* C20: an exception notify does not catch leaves wrapped without the gate
\* recording anything: every timestamp is as before the step, and a call
\* made next with no recorded completion is executed.
C20_ExceptionKeepsGate ==
    [][\A n \in Notifiers :
          /\ (ret'[n] = "raised" /\ ret[n] # "raised")
             => (pc'[n] = "returned" /\ old_time' = old_time /\ lastDone' = lastDone)
          /\ (pc[n] = "l37" /\ pc'[n] # "l37" /\ lastDone = None)
             => pc'[n] = "stat"]_vars

\* A call has raised and no completion has ever been recorded.
C20_Witness ==
    \E n \in Notifiers :
        /\ pc[n] = "returned" /\ ret[n] = "raised"
        /\ txn[n].result = "Uncaught"
        /\ old_time[GateOf(n)] = None

====
